---- MODULE Spec2Model ----
(***************************************************************************)
(* Telemetry service of the smart-home repository                          *)
(* (src/telemetry-service/main.py): the bearer-token dependency, the two   *)
(* SQLite tables created by init_db, and one action per HTTP handler.      *)
(*                                                                         *)
(* Every handler is an `async def` that never awaits, so a handler runs to *)
(* completion on the event loop before the next request is served: one     *)
(* action is one whole request, and concurrency is the arbitrary order in  *)
(* which requests of different tenants are served.  resp is the response   *)
(* of the request just handled, until the server has sent it.              *)
(*                                                                         *)
(* Time is counted in whole hours.  A timestamp is kept as the TEXT that   *)
(* SQLite stores and compares: <<date, separator, hour of day>>, where the *)
(* separator is " " in CURRENT_TIMESTAMP values and "T" in the values that *)
(* Python's datetime.isoformat() produces.  The host clock is UTC.         *)
(***************************************************************************)
EXTENDS Integers, Sequences, FiniteSets, TLC

\* ------------------------------------------------------------------ bounds

\* Rows ever inserted into the telemetry table.
MaxReadings == 2
\* Times the clock advances.
MaxTicks == 1
\* Appends in a history of readings.
MaxSeeds == 3
\* Readings of a burst within one hour, and error readings before it.
MaxBurst == 30
MaxOldErrors == 6

\* --------------------------------------------------------- program constants

HoursPerDay == 24
DaysPerWeek == 7
DaysPerMonth == 30
DaysPerYear == 365
ExpectedPoints == 24
DefaultLimit == 100
\* Hundredths of a currency unit, and of a kg of CO2, per kWh.
CostPerKwh == 12
CarbonPerKwh == 92
\* Thresholds of the health report.
UptimeAdvisory == 90
TemperatureAdvisory == 80
MaintenanceErrors == 5
MaintenanceUptime == 80

\* ------------------------------------------------------------ input domains

Tenants == {"alice", "bob"}
Devices == {"d1", "d2"}
StatusValues == {"active", "error"}
EnergyValues == {2}
TemperatureValues == {<<>>}
VoltageValues == {<<>>}
CurrentValues == {<<>>}
PowerFactorValues == {<<>>}
HumidityValues == {<<>>}
Periods == {"daily", "weekly", "hourly"}
LimitValues == {-1, 0, 1, DefaultLimit}
\* Hours advanced by one step of the clock.
TickHours == HoursPerDay \div 2

\* An optional value: <<>> is None / NULL, <<v>> is v.
None == <<>>
Some(v) == <<v>>
IsSome(o) == o # <<>>
Val(o) == o[1]

\* The clock when the service starts: late enough for every window start
\* (now - 365 days) to be a date of the common era.
StartOfService == (DaysPerYear + 1) * HoursPerDay
LastHour == StartOfService + MaxTicks * TickHours

\* ------------------------------------------------------------- timestamps

\* SQLite CURRENT_TIMESTAMP: 'YYYY-MM-DD HH:MM:SS'.
CurrentTimestamp(t) == <<t \div HoursPerDay, " ", t % HoursPerDay>>
\* datetime.isoformat(): 'YYYY-MM-DDTHH:MM:SS.ffffff'.
IsoFormat(t) == <<t \div HoursPerDay, "T", t % HoursPerDay>>

\* Byte order of the two separators (0x20 < 0x54).
SepRank(c) == IF c = " " THEN 0 ELSE 1
\* TEXT comparison as SQLite does it (memcmp): date, then separator, then time.
TextLess(a, b) ==
    \/ a[1] < b[1]
    \/ a[1] = b[1] /\ SepRank(a[2]) < SepRank(b[2])
    \/ a[1] = b[1] /\ a[2] = b[2] /\ a[3] < b[3]
TextGeq(a, b) == ~TextLess(a, b)
TextLeq(a, b) == ~TextLess(b, a)

\* ----------------------------------------------------------------- tokens

\* A bearer token: whether its HS256 signature verifies under SECRET_KEY, and
\* its claims.  The auth service issues {sub, role, exp}.
Token(sig, sub, role, exp) == [sig_ok |-> sig, sub |-> sub, role |-> role, exp |-> exp]
Tokens ==
    { Token(TRUE, Some("alice"), "user", Some(LastHour)),
      Token(TRUE, Some("bob"), "user", Some(LastHour)),
      Token(TRUE, Some("alice"), "user", Some(StartOfService)),
      Token(FALSE, Some("alice"), "user", Some(LastHour)),
      Token(TRUE, None, "user", Some(LastHour)) }

\* What a request carries: a token, or no Authorization header at all.
NoToken == Token(FALSE, None, "none", None)
Credentials == Tokens \cup {NoToken}

VARIABLES
    layout,         \* column order of the telemetry table in telemetry.db
    now,            \* the clock, in hours
    telemetry,      \* rows of table telemetry
    next_id,        \* AUTOINCREMENT sequence of table telemetry
    user_devices,   \* rows of table user_devices
    resp            \* the request just handled and its response, until sent

vars == <<layout, now, telemetry, next_id, user_devices, resp>>

\* ----------------------------------------------------------------- tables

\* Table telemetry has twelve columns.  init_db creates them in the order Fresh;
\* a telemetry.db whose table predates the user_id column got that column
\* appended by ALTER TABLE ... ADD COLUMN, the order Migrated, which is the
\* order the handlers' positional indexes were written for.
Layouts == {"fresh", "migrated"}

\* A cell of a fetched row: its SQLite storage class and its value.
Cell(ty, v) == [ty |-> ty, v |-> v]
OptReal(o) == IF IsSome(o) THEN Cell("REAL", Val(o)) ELSE Cell("NULL", 0)

\* SELECT * FROM telemetry: the row as a tuple, in the table's column order.
SelectStar(lay, r) ==
    IF lay = "fresh"
    THEN << Cell("INTEGER", r.id), Cell("TEXT", r.user_id), Cell("TEXT", r.device_id),
            Cell("DATETIME", r.timestamp), Cell("REAL", r.energy_usage),
            OptReal(r.voltage), OptReal(r.current), OptReal(r.power_factor),
            OptReal(r.temperature), OptReal(r.humidity), Cell("TEXT", r.status),
            Cell("DATETIME", r.created_at) >>
    ELSE << Cell("INTEGER", r.id), Cell("TEXT", r.device_id),
            Cell("DATETIME", r.timestamp), Cell("REAL", r.energy_usage),
            OptReal(r.voltage), OptReal(r.current), OptReal(r.power_factor),
            OptReal(r.temperature), OptReal(r.humidity), Cell("TEXT", r.status),
            Cell("DATETIME", r.created_at), Cell("TEXT", r.user_id) >>

\* Python's row[i]: tuples are indexed from 0.
Col(row, i) == row[i + 1]

\* pydantic field validation of a fetched cell.
IsInt(c) == c.ty = "INTEGER"
IsStr(c) == c.ty \in {"TEXT", "DATETIME"}
IsDatetime(c) == c.ty = "DATETIME"
IsFloat(c) == c.ty \in {"REAL", "INTEGER"}
IsOptFloat(c) == c.ty \in {"REAL", "INTEGER", "NULL"}
OptOf(c) == IF c.ty = "NULL" THEN None ELSE Some(c.v)
\* pydantic's datetime field parses the stored text ('YYYY-MM-DD HH:MM:SS', or
\* the ISO form with "T") into the instant it denotes, here in hours.
ParseDatetime(text) == text[1] * HoursPerDay + text[3]

\* TelemetryResponse(id=row[0], device_id=row[1], timestamp=row[2], ...):
\* whether pydantic accepts the nine positional cells, and the model it builds.
TelemetryResponseValid(row) ==
    /\ IsInt(Col(row, 0))
    /\ IsStr(Col(row, 1))
    /\ IsDatetime(Col(row, 2))
    /\ IsFloat(Col(row, 3))
    /\ \A i \in 4..8 : IsOptFloat(Col(row, i))
    /\ IsStr(Col(row, 9))

TelemetryResponse(row) ==
    [ id |-> Col(row, 0).v,
      device_id |-> Col(row, 1).v,
      timestamp |-> ParseDatetime(Col(row, 2).v),
      energy_usage |-> Col(row, 3).v,
      voltage |-> OptOf(Col(row, 4)),
      current |-> OptOf(Col(row, 5)),
      power_factor |-> OptOf(Col(row, 6)),
      temperature |-> OptOf(Col(row, 7)),
      humidity |-> OptOf(Col(row, 8)),
      status |-> Col(row, 9).v ]

\* The sequences that list the rows of S by timestamp, newest first
\* (ORDER BY timestamp DESC; SQLite leaves the order of equal keys open).
OrderByDesc(S, column) ==
    { s \in [1..Cardinality(S) -> S] :
        /\ \A i, j \in 1..Cardinality(S) : i # j => s[i] # s[j]
        /\ \A i, j \in 1..Cardinality(S) : i < j => ~TextLess(s[i][column], s[j][column]) }

TimestampOf == "timestamp"
CreatedAtOf == "created_at"

\* As FetchLatest, with the row inserted first.
FetchLatest_first_inserted(S, column) == { r \in S : \A q \in S : r.id <= q.id }

\* ORDER BY column DESC LIMIT 1, then fetchone(): the rows that can come first.
FetchLatest(S, column) == { r \in S : \A q \in S : ~TextLess(r[column], q[column]) }

\* LIMIT n: a negative n is no limit.
Limit(s, n) == IF n < 0 \/ n >= Len(s) THEN s ELSE SubSeq(s, 1, n)

\* ------------------------------------------------------------ the response

\* What the last request was and what the caller got back.  conn_closed: the
\* sqlite3 connection the handler opened was closed before it returned.
Response(op, token, args, status, body, closed) ==
    [op |-> op, token |-> token, args |-> args, status |-> status, body |-> body,
     conn_closed |-> closed]

\* No response is in flight: the server is ready for the next request.
Idle == Response("none", NoToken, None, 0, None, TRUE)
Ready == resp.op = "none"
\* A handler is between two of its statements: it has not answered yet.
Running == resp.op # "none" /\ resp.status = 0

\* jose.jwt.decode: the signature, then the exp claim when present; then the
\* handler's own check of the sub claim.
\* As get_current_user, decoding with the expiry check switched off.
get_current_user_no_exp(token, t) ==
    IF ~token.sig_ok \/ ~IsSome(token.sub)
    THEN [ok |-> FALSE, payload |-> token]
    ELSE [ok |-> TRUE, payload |-> token]

get_current_user(token, t) ==
    IF ~token.sig_ok \/ (IsSome(token.exp) /\ Val(token.exp) < t) \/ ~IsSome(token.sub)
    THEN [ok |-> FALSE, payload |-> token]
    ELSE [ok |-> TRUE, payload |-> token]


\* security = HTTPBearer(): whether the request carries bearer credentials.
security(credentials) == credentials # NoToken

\* The 401 every route but /health answers when the dependency raises: the
\* handler body never runs and no connection is opened.
Unauthorized(op, token) == Response(op, token, None, 401, None, TRUE)

\* What Depends(get_current_user) answers instead of running the handler; no
\* response when the request is let through.  Without credentials HTTPBearer
\* itself answers 403 Not authenticated (401 in later FastAPI releases).
Rejections(op, credentials, t) ==
    IF ~security(credentials)
    THEN { Response(op, credentials, None, st, None, TRUE) : st \in {401, 403} }
    ELSE IF ~get_current_user(credentials, t).ok
    THEN { Unauthorized(op, credentials) }
    ELSE {}

Sub(token) == Val(token.sub)

\* ------------------------------------------------------------------ clock

\* Hours pass between two requests.
Tick ==
    /\ Ready
    /\ now + TickHours <= LastHour
    /\ now' = now + TickHours
    /\ UNCHANGED <<layout, telemetry, next_id, user_devices, resp>>

\* -------------------------------------------------------- POST /telemetry

\* A request body: the fields of TelemetryCreate, and a user_id field a client
\* may add.
TelemetryBodies ==
    [ device_id : Devices, energy_usage : EnergyValues, voltage : VoltageValues,
      current : CurrentValues, power_factor : PowerFactorValues,
      temperature : TemperatureValues, humidity : HumidityValues,
      status : StatusValues, user_id : {None} \cup {Some(t) : t \in Tenants} ]

\* pydantic keeps the declared fields of the model and ignores any other.
TelemetryCreate(body) ==
    [ device_id |-> body.device_id, energy_usage |-> body.energy_usage,
      voltage |-> body.voltage, current |-> body.current,
      power_factor |-> body.power_factor, temperature |-> body.temperature,
      humidity |-> body.humidity, status |-> body.status ]

\* As InsertTelemetry, with the migration's "default_user" as user_id.
InsertTelemetry_default_user(current_user, telemetry_data, id, t) ==
    [ id |-> id,
      user_id |-> "default_user",
      device_id |-> telemetry_data.device_id,
      timestamp |-> CurrentTimestamp(t),
      energy_usage |-> telemetry_data.energy_usage,
      voltage |-> telemetry_data.voltage,
      current |-> telemetry_data.current,
      power_factor |-> telemetry_data.power_factor,
      temperature |-> telemetry_data.temperature,
      humidity |-> telemetry_data.humidity,
      status |-> telemetry_data.status,
      created_at |-> CurrentTimestamp(t) ]

\* INSERT INTO telemetry (user_id, device_id, energy_usage, ...): id from the
\* AUTOINCREMENT sequence, timestamp and created_at from their defaults.
InsertTelemetry(current_user, telemetry_data, id, t) ==
    [ id |-> id,
      user_id |-> Sub(current_user),
      device_id |-> telemetry_data.device_id,
      timestamp |-> CurrentTimestamp(t),
      energy_usage |-> telemetry_data.energy_usage,
      voltage |-> telemetry_data.voltage,
      current |-> telemetry_data.current,
      power_factor |-> telemetry_data.power_factor,
      temperature |-> telemetry_data.temperature,
      humidity |-> telemetry_data.humidity,
      status |-> telemetry_data.status,
      created_at |-> CurrentTimestamp(t) ]

\* As create_telemetry, provisioning the device of the reading on the way.
create_telemetry_registers ==
    /\ Ready
    /\ \E token \in Credentials :
        IF Rejections("create_telemetry", token, now) # {}
        THEN /\ resp' \in Rejections("create_telemetry", token, now)
             /\ UNCHANGED <<layout, now, telemetry, next_id, user_devices>>
        ELSE \E body \in TelemetryBodies :
            LET telemetry_data == TelemetryCreate(body)
                inserted == InsertTelemetry(token, telemetry_data, next_id, now)
                fetched == SelectStar(layout, inserted)
                known == { d \in user_devices : d.user_id = Sub(token)
                                                 /\ d.device_id = body.device_id }
            IN   /\ next_id <= MaxReadings
                 /\ telemetry' = telemetry \cup {inserted}
                 /\ next_id' = next_id + 1
                 /\ user_devices' =
                        IF known # {} THEN user_devices
                        ELSE user_devices \cup
                               { [ user_id |-> Sub(token), device_id |-> body.device_id,
                                   device_name |-> "Unknown Device",
                                   device_type |-> "Smart Device",
                                   location |-> "Unknown Location", is_active |-> TRUE,
                                   created_at |-> CurrentTimestamp(now) ] }
                 /\ resp' = IF TelemetryResponseValid(fetched)
                            THEN Response("create_telemetry", token, body,
                                          201, TelemetryResponse(fetched), TRUE)
                            ELSE Response("create_telemetry", token, body,
                                          500, None, TRUE)
                 /\ UNCHANGED <<layout, now>>

\* As PostTelemetry, the new reading taking the place of the readings the
\* principal stored for the device before.
PostTelemetry_upsert(bodies) ==
    /\ Ready
    /\ \E token \in Credentials :
        IF Rejections("create_telemetry", token, now) # {}
        THEN /\ resp' \in Rejections("create_telemetry", token, now)
             /\ UNCHANGED <<layout, now, telemetry, next_id, user_devices>>
        ELSE \E body \in bodies :
            LET telemetry_data == TelemetryCreate(body)
                inserted == InsertTelemetry(token, telemetry_data, next_id, now)
                fetched == SelectStar(layout, inserted)
                replaced == { r \in telemetry : /\ r.user_id = inserted.user_id
                                                /\ r.device_id = inserted.device_id }
            IN   /\ next_id <= MaxReadings
                 /\ telemetry' = (telemetry \ replaced) \cup {inserted}
                 /\ next_id' = next_id + 1
                 /\ resp' = IF TelemetryResponseValid(fetched)
                            THEN Response("create_telemetry", token, body,
                                          201, TelemetryResponse(fetched), TRUE)
                            ELSE Response("create_telemetry", token, body,
                                          500, None, TRUE)
                 /\ UNCHANGED <<layout, now, user_devices>>

\* The handler on a request whose body is one of `bodies`.
PostTelemetry(bodies) ==
    /\ Ready
    /\ \E token \in Credentials :
        IF Rejections("create_telemetry", token, now) # {}
        THEN /\ resp' \in Rejections("create_telemetry", token, now)
             /\ UNCHANGED <<layout, now, telemetry, next_id, user_devices>>
        ELSE \E body \in bodies :
            LET telemetry_data == TelemetryCreate(body)
                inserted == InsertTelemetry(token, telemetry_data, next_id, now)
                fetched == SelectStar(layout, inserted)
            IN   /\ next_id <= MaxReadings
                 /\ telemetry' = telemetry \cup {inserted}
                 /\ next_id' = next_id + 1
                 /\ resp' = IF TelemetryResponseValid(fetched)
                            THEN Response("create_telemetry", token, body,
                                          201, TelemetryResponse(fetched), TRUE)
                            ELSE Response("create_telemetry", token, body,
                                          500, None, TRUE)
                 /\ UNCHANGED <<layout, now, user_devices>>

create_telemetry == PostTelemetry(TelemetryBodies)

\* energy_usage is any float: below zero, zero, above zero.
SignedEnergyValues == {-1, 0, 2}
SignedTelemetryBodies ==
    [ device_id : Devices, energy_usage : SignedEnergyValues, voltage : VoltageValues,
      current : CurrentValues, power_factor : PowerFactorValues,
      temperature : {None, Some(TemperatureAdvisory)}, humidity : HumidityValues,
      status : StatusValues, user_id : {None} ]

\* The handler on requests with an energy_usage of either sign.
create_telemetry_signed == PostTelemetry(SignedTelemetryBodies)

\* --------------------------------------------------------- GET /telemetry

\* As TelemetryWhere, without the user_id condition.
TelemetryWhere_any_user(r, current_user, device_id, start_time, end_time) ==
    /\ IsSome(device_id) => r.device_id = Val(device_id)
    /\ IsSome(start_time) => TextGeq(r.timestamp, IsoFormat(Val(start_time)))
    /\ IsSome(end_time) => TextLeq(r.timestamp, IsoFormat(Val(end_time)))

\* WHERE user_id = ? [AND device_id = ?] [AND timestamp >= ?] [AND timestamp <= ?]
TelemetryWhere(r, current_user, device_id, start_time, end_time) ==
    /\ r.user_id = Sub(current_user)
    /\ IsSome(device_id) => r.device_id = Val(device_id)
    /\ IsSome(start_time) => TextGeq(r.timestamp, IsoFormat(Val(start_time)))
    /\ IsSome(end_time) => TextLeq(r.timestamp, IsoFormat(Val(end_time)))

OptDevices == {None} \cup {Some(d) : d \in Devices}
OptTimes == {None, Some(StartOfService)}
\* The query parameters: device_id, start_time, end_time, limit.
TelemetryQueries ==
    [ device_id : OptDevices, start_time : OptTimes, end_time : OptTimes,
      limit : LimitValues ]

\* The handler after authentication, on the rows of table T: the responses it
\* can give (one for each order SQLite may return equal timestamps in).
TelemetryResponses(T, lay, token, args) ==
    LET matching == { r \in T : TelemetryWhere(r, token, args.device_id,
                                               args.start_time, args.end_time) }
    IN  { LET telemetry_data ==
                  [i \in 1..Len(Limit(sorted, args.limit)) |->
                      SelectStar(lay, Limit(sorted, args.limit)[i])]
          IN  IF \A i \in 1..Len(telemetry_data) : TelemetryResponseValid(telemetry_data[i])
              THEN Response("get_telemetry", token, args, 200,
                     [i \in 1..Len(telemetry_data) |-> TelemetryResponse(telemetry_data[i])],
                     TRUE)
              ELSE Response("get_telemetry", token, args, 500, None, TRUE)
          : sorted \in OrderByDesc(matching, TimestampOf) }

get_telemetry ==
    /\ Ready
    /\ \E token \in Credentials :
        IF Rejections("get_telemetry", token, now) # {}
        THEN resp' \in Rejections("get_telemetry", token, now)
        ELSE \E args \in TelemetryQueries :
                resp' \in TelemetryResponses(telemetry, layout, token, args)
    /\ UNCHANGED <<layout, now, telemetry, next_id, user_devices>>

\* --------------------------------- GET /telemetry/{device_id}/analytics

\* As WindowStart, with the weekly window for any other period.
WindowStart_default_weekly(period, t) ==
    IF period = "daily" THEN Some(t - HoursPerDay)
    ELSE IF period = "monthly" THEN Some(t - DaysPerMonth * HoursPerDay)
    ELSE IF period = "yearly" THEN Some(t - DaysPerYear * HoursPerDay)
    ELSE Some(t - DaysPerWeek * HoursPerDay)

\* The start of the window of a period, in hours; None for any other period.
WindowStart(period, t) ==
    IF period = "daily" THEN Some(t - HoursPerDay)
    ELSE IF period = "weekly" THEN Some(t - DaysPerWeek * HoursPerDay)
    ELSE IF period = "monthly" THEN Some(t - DaysPerMonth * HoursPerDay)
    ELSE IF period = "yearly" THEN Some(t - DaysPerYear * HoursPerDay)
    ELSE None

\* WHERE device_id = ? AND timestamp >= ?
AnalyticsWhere(r, current_user, device_id, start_time) ==
    /\ r.device_id = device_id
    /\ TextGeq(r.timestamp, IsoFormat(start_time))

RECURSIVE SumOf(_, _)
SumOf(s, i) == IF i > Len(s) THEN 0 ELSE s[i] + SumOf(s, i + 1)

MaxOf(s) == CHOOSE m \in {s[i] : i \in 1..Len(s)} : \A i \in 1..Len(s) : s[i] <= m

\* sum() and max() over row[3] need numbers there.
EnergyColumnIsNumeric(telemetry_data) ==
    \A i \in 1..Len(telemetry_data) : IsFloat(Col(telemetry_data[i], 3))

\* calculate_energy_analytics on a non-empty list of fetched rows.  Money and
\* carbon are in hundredths (0.12 and 0.92 per kWh); the average is the
\* fraction total / count.
calculate_energy_analytics(telemetry_data) ==
    LET energy_values == [i \in 1..Len(telemetry_data) |-> Col(telemetry_data[i], 3).v]
        total_energy == SumOf(energy_values, 1)
    IN  [ device_id |-> Col(telemetry_data[1], 1).v,
          period |-> "custom",
          total_energy |-> total_energy,
          average_energy |-> [num |-> total_energy, den |-> Len(energy_values)],
          peak_energy |-> MaxOf(energy_values),
          cost_estimate |-> total_energy * CostPerKwh,
          carbon_footprint |-> total_energy * CarbonPerKwh,
          data_points |-> <<>> ]

\* The handler after authentication, on the rows of table T: the responses it
\* can give (one for each order SQLite may return equal timestamps in).
AnalyticsResponses(T, lay, token, device_id, period, t) ==
    LET args == [device_id |-> device_id, period |-> period]
        start_time == WindowStart(period, t)
        matching == { r \in T : AnalyticsWhere(r, token, device_id, Val(start_time)) }
    IN  IF ~IsSome(start_time)
        THEN { Response("get_device_analytics", token, args, 400, None, FALSE) }
        ELSE IF matching = {}
        THEN { Response("get_device_analytics", token, args, 404, None, TRUE) }
        ELSE { LET telemetry_data == [i \in 1..Len(sorted) |-> SelectStar(lay, sorted[i])]
               IN  IF EnergyColumnIsNumeric(telemetry_data)
                   THEN Response("get_device_analytics", token, args, 200,
                          [calculate_energy_analytics(telemetry_data)
                             EXCEPT !.period = period], TRUE)
                   ELSE Response("get_device_analytics", token, args, 500, None, TRUE)
               : sorted \in OrderByDesc(matching, TimestampOf) }

get_device_analytics ==
    /\ Ready
    /\ \E token \in Credentials :
        IF Rejections("get_device_analytics", token, now) # {}
        THEN resp' \in Rejections("get_device_analytics", token, now)
        ELSE \E device_id \in Devices, period \in Periods :
                resp' \in AnalyticsResponses(telemetry, layout, token, device_id, period, now)
    /\ UNCHANGED <<layout, now, telemetry, next_id, user_devices>>

\* ------------------------------------ GET /telemetry/{device_id}/health

\* WHERE device_id = ?
HealthWhere(r, current_user, device_id) == r.device_id = device_id

\* As Recommendations, the rules chained with elif: the first that triggers
\* is the only advisory.
Recommendations_first_only(uptime_percentage, error_count, latest) ==
    IF uptime_percentage.num < UptimeAdvisory * uptime_percentage.den
    THEN <<"Device may be experiencing connectivity issues">>
    ELSE IF error_count > 0
    THEN <<"Device has reported errors - check device status">>
    ELSE IF Col(latest, 7).ty # "NULL" /\ Col(latest, 7).v # 0
              /\ Col(latest, 7).v > TemperatureAdvisory
    THEN <<"Device temperature is high - check ventilation">>
    ELSE <<>>

\* The three advisories, in the order the handler appends them.
Recommendations(uptime_percentage, error_count, latest) ==
    (IF uptime_percentage.num < UptimeAdvisory * uptime_percentage.den
       THEN <<"Device may be experiencing connectivity issues">> ELSE <<>>)
    \o (IF error_count > 0
       THEN <<"Device has reported errors - check device status">> ELSE <<>>)
    \o (IF Col(latest, 7).ty # "NULL" /\ Col(latest, 7).v # 0
             /\ Col(latest, 7).v > TemperatureAdvisory
       THEN <<"Device temperature is high - check ventilation">> ELSE <<>>)

\* As MaintenanceDue, due only when both conditions hold.
MaintenanceDue_both(error_count, uptime_percentage) ==
    /\ error_count > MaintenanceErrors
    /\ uptime_percentage.num < MaintenanceUptime * uptime_percentage.den

\* maintenance_due=error_count > 5 or uptime_percentage < 80
MaintenanceDue(error_count, uptime_percentage) ==
    \/ error_count > MaintenanceErrors
    \/ uptime_percentage.num < MaintenanceUptime * uptime_percentage.den

\* SELECT COUNT(*) ... WHERE device_id = ? AND timestamp >= ?, with
\* yesterday.isoformat() of the time t of the query.
RecentCount(T, current_user, device_id, t) ==
    Cardinality({ r \in T : /\ HealthWhere(r, current_user, device_id)
                            /\ TextGeq(r.timestamp, IsoFormat(t - HoursPerDay)) })

\* As ErrorCount, without the condition on status.
ErrorCount_any_status(T, current_user, device_id) ==
    Cardinality({ r \in T : HealthWhere(r, current_user, device_id) })

\* SELECT COUNT(*) ... WHERE device_id = ? AND status != 'active'
ErrorCount(T, current_user, device_id) ==
    Cardinality({ r \in T : HealthWhere(r, current_user, device_id) /\ r.status # "active" })

\* The report built from the results of the three queries: the latest row as
\* fetched, the recent count and the error count.
DeviceHealth(token, device_id, latest, recent_count, error_count) ==
    LET args == [device_id |-> device_id]
        uptime_percentage == [num |-> recent_count * 100, den |-> ExpectedPoints]
    IN  IF IsStr(Col(latest, 9)) /\ IsDatetime(Col(latest, 2))
        THEN Response("get_device_health", token, args, 200,
               [ device_id |-> device_id,
                 status |-> Col(latest, 9).v,
                 last_seen |-> ParseDatetime(Col(latest, 2).v),
                 uptime_percentage |-> uptime_percentage,
                 error_count |-> error_count,
                 maintenance_due |-> MaintenanceDue(error_count, uptime_percentage),
                 recommendations |->
                     Recommendations(uptime_percentage, error_count, latest) ],
               TRUE)
        ELSE Response("get_device_health", token, args, 500, None, TRUE)

\* The handler after authentication, on the rows of table T.
HealthResponses(T, lay, token, device_id, t) ==
    LET args == [device_id |-> device_id]
        matching == { r \in T : HealthWhere(r, token, device_id) }
    IN  IF matching = {}
        THEN { Response("get_device_health", token, args, 404, None, FALSE) }
        ELSE { DeviceHealth(token, device_id, SelectStar(lay, first),
                            RecentCount(T, token, device_id, t),
                            ErrorCount(T, token, device_id))
               : first \in FetchLatest(matching, TimestampOf) }

get_device_health ==
    /\ Ready
    /\ \E token \in Credentials :
        IF Rejections("get_device_health", token, now) # {}
        THEN resp' \in Rejections("get_device_health", token, now)
        ELSE \E device_id \in Devices :
                resp' \in HealthResponses(telemetry, layout, token, device_id, now)
    /\ UNCHANGED <<layout, now, telemetry, next_id, user_devices>>

\* ------------------------------------------ GET /telemetry/devices/summary

\* As LatestOf, with the last row of the device in the sorted list.
LatestOf_oldest(sorted, device_id) ==
    LET at == { i \in 1..Len(sorted) : sorted[i].device_id = device_id }
    IN  IF at = {} THEN None
        ELSE Some(sorted[CHOOSE i \in at : \A j \in at : i >= j])

\* The first row of a sorted list that is of the device: the row numbered 1 in
\* its partition (ROW_NUMBER() OVER (PARTITION BY device_id ORDER BY timestamp
\* DESC)); None when the LEFT JOIN finds no row.
LatestOf(sorted, device_id) ==
    LET at == { i \in 1..Len(sorted) : sorted[i].device_id = device_id }
    IN  IF at = {} THEN None
        ELSE Some(sorted[CHOOSE i \in at : \A j \in at : i <= j])

\* FROM telemetry WHERE user_id = ?  (the joined subquery)
SummaryTelemetryWhere(r, current_user) == r.user_id = Sub(current_user)
\* FROM user_devices ud ... WHERE ud.user_id = ?
UserDevicesWhere(d, current_user) == d.user_id = Sub(current_user)

\* One entry of "devices"; device[7] or "unknown" gives "unknown" for no joined
\* row (NULL) and for an empty status.
SummaryEntry(device, latest) ==
    [ device_id |-> device.device_id,
      device_name |-> device.device_name,
      device_type |-> device.device_type,
      location |-> device.location,
      is_active |-> device.is_active,
      last_energy_usage |-> IF IsSome(latest) THEN Some(Val(latest).energy_usage) ELSE None,
      last_seen |-> IF IsSome(latest) THEN Some(Val(latest).timestamp) ELSE None,
      status |-> IF IsSome(latest) /\ Val(latest).status # ""
                 THEN Val(latest).status ELSE "unknown" ]

SummaryResponses(T, UD, token) ==
    LET mine == { d \in UD : UserDevicesWhere(d, token) }
        readings == { r \in T : SummaryTelemetryWhere(r, token) }
    IN  { LET devices == [i \in 1..Len(ds) |-> SummaryEntry(ds[i], LatestOf(rs, ds[i].device_id))]
          IN  Response("get_devices_summary", token, None, 200,
                [ user_id |-> Sub(token),
                  total_devices |-> Len(devices),
                  active_devices |->
                      Cardinality({ i \in 1..Len(devices) : devices[i].is_active }),
                  devices |-> devices ], TRUE)
          : ds \in OrderByDesc(mine, CreatedAtOf), rs \in OrderByDesc(readings, TimestampOf) }

get_devices_summary ==
    /\ Ready
    /\ \E token \in Credentials :
        /\ IF Rejections("get_devices_summary", token, now) # {}
           THEN resp' \in Rejections("get_devices_summary", token, now)
           ELSE resp' \in SummaryResponses(telemetry, user_devices, token)
        /\ UNCHANGED <<layout, now, telemetry, next_id, user_devices>>

\* ----------------------------------------------------------- POST /devices

\* The body is any JSON object: device_id may be missing.
DeviceBodies == [ device_id : OptDevices ]

\* As IntegrityError, on a table without the UNIQUE constraint.
IntegrityError_not_null_only(UD, user_id, device_id) == ~IsSome(device_id)

\* sqlite3.IntegrityError on the INSERT: device_id is NOT NULL, and
\* UNIQUE(user_id, device_id).
IntegrityError(UD, user_id, device_id) ==
    \/ ~IsSome(device_id)
    \/ \E d \in UD : d.user_id = user_id /\ d.device_id = Val(device_id)

InsertUserDevice(current_user, device_data, t) ==
    [ user_id |-> Sub(current_user),
      device_id |-> Val(device_data.device_id),
      device_name |-> "Unknown Device",
      device_type |-> "Smart Device",
      location |-> "Unknown Location",
      is_active |-> TRUE,
      created_at |-> CurrentTimestamp(t) ]

create_user_device ==
    /\ Ready
    /\ \E token \in Credentials :
        IF Rejections("create_user_device", token, now) # {}
        THEN /\ resp' \in Rejections("create_user_device", token, now)
             /\ UNCHANGED <<layout, now, telemetry, next_id, user_devices>>
        ELSE \E device_data \in DeviceBodies :
            IF IntegrityError(user_devices, Sub(token), device_data.device_id)
            THEN /\ resp' = Response("create_user_device", token, device_data, 400,
                               "Device ID already exists for this user", TRUE)
                 /\ UNCHANGED <<layout, now, telemetry, next_id, user_devices>>
            ELSE /\ user_devices' =
                        user_devices \cup {InsertUserDevice(token, device_data, now)}
                 /\ resp' = Response("create_user_device", token, device_data, 201,
                               "Device created successfully", TRUE)
                 /\ UNCHANGED <<layout, now, telemetry, next_id>>

\* ------------------------------------------------------------ GET /devices

DeviceEntry(device) ==
    [ device_id |-> device.device_id,
      device_name |-> device.device_name,
      device_type |-> device.device_type,
      location |-> device.location,
      is_active |-> device.is_active,
      created_at |-> device.created_at ]

get_user_devices ==
    /\ Ready
    /\ \E token \in Credentials :
        LET mine == { d \in user_devices : UserDevicesWhere(d, token) }
        IN  /\ IF Rejections("get_user_devices", token, now) # {}
               THEN resp' \in Rejections("get_user_devices", token, now)
               ELSE \E ds \in OrderByDesc(mine, CreatedAtOf) :
                        resp' = Response("get_user_devices", token, None, 200,
                                  [i \in 1..Len(ds) |-> DeviceEntry(ds[i])], TRUE)
            /\ UNCHANGED <<layout, now, telemetry, next_id, user_devices>>

\* ------------------------------------------ DELETE /telemetry/{telemetry_id}

\* As DeleteWhere, with the caller's rows in place of the row of the id.
DeleteWhere_own_rows(r, current_user, telemetry_id) == r.user_id = Sub(current_user)

\* DELETE FROM telemetry WHERE id = ?
DeleteWhere(r, current_user, telemetry_id) == r.id = telemetry_id

delete_telemetry ==
    /\ Ready
    /\ \E token \in Credentials :
        IF Rejections("delete_telemetry", token, now) # {}
        THEN /\ resp' \in Rejections("delete_telemetry", token, now)
             /\ UNCHANGED <<layout, now, telemetry, next_id, user_devices>>
        ELSE \E telemetry_id \in 1..MaxReadings :
            LET args == [telemetry_id |-> telemetry_id]
                deleted == { r \in telemetry : DeleteWhere(r, token, telemetry_id) }
            IN  IF deleted = {}
            THEN /\ resp' = Response("delete_telemetry", token, args, 404, None, TRUE)
                 /\ UNCHANGED <<layout, now, telemetry, next_id, user_devices>>
            ELSE /\ telemetry' = telemetry \ deleted
                 /\ resp' = Response("delete_telemetry", token, args, 200, None, TRUE)
                 /\ UNCHANGED <<layout, now, next_id, user_devices>>

\* -------------------------------------------------------------- GET /health

health_check ==
    /\ Ready
    /\ resp' = Response("health_check", NoToken, None, 200, None, TRUE)
    /\ UNCHANGED <<layout, now, telemetry, next_id, user_devices>>

\* ------------------------------------------------------------- the server

\* The response of the handled request goes out; the next request is taken.
send_response ==
    /\ ~Ready
    /\ ~Running
    /\ resp' = Idle
    /\ UNCHANGED <<layout, now, telemetry, next_id, user_devices>>

\* ------------------------------------------------------------ specification

Init ==
    /\ layout \in Layouts
    /\ now = StartOfService
    /\ telemetry = {}
    /\ next_id = 1
    /\ user_devices = {}
    /\ resp = Idle

Next ==
    \/ Tick
    \/ send_response
    \/ create_telemetry
    \/ get_telemetry
    \/ get_device_analytics
    \/ get_device_health
    \/ get_devices_summary
    \/ create_user_device
    \/ get_user_devices
    \/ delete_telemetry
    \/ health_check

Spec == Init /\ [][Next]_vars

\* The telemetry routes alone: no device is ever registered.
NextTelemetry ==
    \/ Tick
    \/ send_response
    \/ create_telemetry
    \/ get_telemetry
    \/ get_device_analytics
    \/ get_device_health
    \/ delete_telemetry
    \/ health_check

SpecTelemetry == Init /\ [][NextTelemetry]_vars

\* The device routes alone: no reading is ever appended.
NextRegistry ==
    \/ Tick
    \/ send_response
    \/ create_user_device
    \/ get_user_devices
    \/ get_devices_summary

SpecRegistry == Init /\ [][NextRegistry]_vars

\* The device routes and ingestion.
NextDevices ==
    \/ Tick
    \/ send_response
    \/ create_telemetry
    \/ create_user_device
    \/ get_user_devices
    \/ get_devices_summary

SpecDevices == Init /\ [][NextDevices]_vars

\* Ingestion of readings with an energy_usage of either sign, and the query.
NextIngest ==
    \/ Tick
    \/ send_response
    \/ create_telemetry_signed
    \/ get_telemetry

SpecIngest == Init /\ [][NextIngest]_vars

\* ------------------------------------------- stores with a history of appends

\* The token the auth service issues to a tenant.
Principal(tenant) == Token(TRUE, Some(tenant), "user", Some(LastHour))

\* A POST /telemetry body of device d1 with the fields the reports read.
ReadingBody(energy_usage, temperature, status) ==
    [ device_id |-> "d1", energy_usage |-> energy_usage, voltage |-> None,
      current |-> None, power_factor |-> None, temperature |-> temperature,
      humidity |-> None, status |-> status, user_id |-> None ]

\* The table after one more POST /telemetry by the tenant at hour t, when no
\* row was ever deleted: the AUTOINCREMENT id is the number of rows plus one.
AppendReading(T, tenant, body, t) ==
    T \cup { InsertTelemetry(Principal(tenant), TelemetryCreate(body),
                             Cardinality(T) + 1, t) }

\* ... after n such requests in the same hour.
RECURSIVE AppendMany(_, _, _, _, _)
AppendMany(T, tenant, body, t, n) ==
    IF n = 0 THEN T ELSE AppendMany(AppendReading(T, tenant, body, t), tenant, body, t, n - 1)

\* Hours before the start of the service at which alice appended a reading:
\* in the same hour, and just under and just over a tick earlier, so that one
\* tick later the readings are 12, 23 and 25 hours old.
SeedAges == {0, TickHours - 1, TickHours + 1}
SeedEnergies == 0..3
Seeds == [age : SeedAges, energy_usage : SeedEnergies]

\* The histories: up to MaxSeeds appends, oldest first.
SeedSequences ==
    { seeds \in UNION { [1..n -> Seeds] : n \in 0..MaxSeeds } :
        \A i, j \in 1..Len(seeds) : i < j => seeds[i].age >= seeds[j].age }

\* ... the table after the appends i..Len(seeds) of a history.
RECURSIVE AppendAll(_, _, _)
AppendAll(T, seeds, i) ==
    IF i > Len(seeds) THEN T
    ELSE AppendAll(AppendReading(T, "alice",
                          ReadingBody(seeds[i].energy_usage, None, "active"),
                          StartOfService - seeds[i].age),
                   seeds, i + 1)

\* The two reports over a store that alice filled before the service restarted.
InitReports ==
    /\ layout \in Layouts
    /\ now = StartOfService
    /\ \E seeds \in SeedSequences :
         /\ telemetry = AppendAll({}, seeds, 1)
         /\ next_id = Len(seeds) + 1
    /\ user_devices = {}
    /\ resp = Idle

NextReports ==
    \/ Tick
    \/ send_response
    \/ get_device_analytics
    \/ get_device_health

SpecReports == InitReports /\ [][NextReports]_vars

\* Temperatures of the readings of a burst.
TemperatureSamples ==
    { None, Some(0), Some(TemperatureAdvisory - 10), Some(TemperatureAdvisory - 5),
      Some(TemperatureAdvisory), Some(TemperatureAdvisory + 1) }

\* A device that reported errors over a tick ago (alice's), then a burst of
\* readings in the hour the service restarted (alice's, and bob's under the
\* same device id).
BurstStore(old_errors, others, recent, temperature, status) ==
    AppendMany(
        AppendMany(
            AppendMany({}, "alice", ReadingBody(2, None, "error"),
                       StartOfService - (TickHours + 1), old_errors),
            "bob", ReadingBody(2, None, "active"), StartOfService, others),
        "alice", ReadingBody(2, temperature, status), StartOfService, recent)

InitHealth ==
    /\ layout \in Layouts
    /\ now = StartOfService
    /\ \E old_errors \in 0..MaxOldErrors, others \in 0..1, recent \in 0..MaxBurst,
          temperature \in TemperatureSamples, status \in StatusValues :
         /\ telemetry = BurstStore(old_errors, others, recent, temperature, status)
         /\ next_id = old_errors + others + recent + 1
    /\ user_devices = {}
    /\ resp = Idle

NextHealth ==
    \/ Tick
    \/ send_response
    \/ get_device_health

SpecHealth == InitHealth /\ [][NextHealth]_vars

\* ---------------------------------- the health evaluation, query by query

\* The handler runs its three SELECTs on a connection in autocommit mode: no
\* transaction spans them, and a request served by another worker on the same
\* telemetry.db can commit between any two of them. The evaluation under way
\* is kept in resp with status 0: body holds the results so far, and args.seen
\* the contents of the table from the first query on, in order.
Evaluation(token, device_id, pc, latest, recent_count, seen) ==
    Response("get_device_health", token, [device_id |-> device_id, seen |-> seen], 0,
             [pc |-> pc, latest |-> latest, recent_count |-> recent_count], FALSE)

\* Authentication and the first query: the latest row of the device, or 404.
health_fetch_latest ==
    /\ Ready
    /\ \E token \in Credentials :
        IF Rejections("get_device_health", token, now) # {}
        THEN resp' \in Rejections("get_device_health", token, now)
        ELSE \E device_id \in Devices :
            LET matching == { r \in telemetry : HealthWhere(r, token, device_id) }
            IN  IF matching = {}
                THEN resp' = Response("get_device_health", token,
                                      [device_id |-> device_id, seen |-> <<telemetry>>],
                                      404, None, FALSE)
                ELSE \E first \in FetchLatest(matching, TimestampOf) :
                        resp' = Evaluation(token, device_id, "recent",
                                           SelectStar(layout, first), 0, <<telemetry>>)
    /\ UNCHANGED <<layout, now, telemetry, next_id, user_devices>>

\* The second query: the number of rows of the device since yesterday.
health_count_recent ==
    /\ Running /\ resp.body.pc = "recent"
    /\ resp' = Evaluation(resp.token, resp.args.device_id, "errors", resp.body.latest,
                          RecentCount(telemetry, resp.token, resp.args.device_id, now),
                          resp.args.seen)
    /\ UNCHANGED <<layout, now, telemetry, next_id, user_devices>>

\* The third query, conn.close() and the report.
health_count_errors ==
    /\ Running /\ resp.body.pc = "errors"
    /\ resp' = [ DeviceHealth(resp.token, resp.args.device_id, resp.body.latest,
                              resp.body.recent_count,
                              ErrorCount(telemetry, resp.token, resp.args.device_id))
                 EXCEPT !.args = resp.args ]
    /\ UNCHANGED <<layout, now, telemetry, next_id, user_devices>>

\* The table after a write of another worker, noted by the evaluation under way.
Noted(T) == IF Running THEN [resp EXCEPT !.args.seen = Append(@, T)] ELSE resp

\* POST /telemetry served by another worker, before or during an evaluation;
\* its response is not followed.
worker_create_telemetry ==
    /\ resp.status = 0
    /\ next_id <= MaxReadings
    /\ \E tenant \in Tenants, body \in TelemetryBodies :
        LET inserted == InsertTelemetry(Principal(tenant), TelemetryCreate(body),
                                        next_id, now)
        IN  /\ telemetry' = telemetry \cup {inserted}
            /\ next_id' = next_id + 1
            /\ resp' = Noted(telemetry')
    /\ UNCHANGED <<layout, now, user_devices>>

\* DELETE /telemetry/{telemetry_id} served by another worker, on a row that is
\* there; its response is not followed.
worker_delete_telemetry ==
    /\ resp.status = 0
    /\ \E tenant \in Tenants, telemetry_id \in 1..MaxReadings :
        LET deleted == { r \in telemetry : DeleteWhere(r, Principal(tenant), telemetry_id) }
        IN  /\ deleted # {}
            /\ telemetry' = telemetry \ deleted
            /\ resp' = Noted(telemetry')
    /\ UNCHANGED <<layout, now, next_id, user_devices>>

NextInterleaved ==
    \/ Tick
    \/ send_response
    \/ health_fetch_latest
    \/ health_count_recent
    \/ health_count_errors
    \/ worker_create_telemetry
    \/ worker_delete_telemetry

SpecInterleaved == Init /\ [][NextInterleaved]_vars

\* --------------------------------------------------------- the API gateway

\* The gateway's dependency: as the service's, and what it returns is the
\* decoded payload, the claims {sub, role, exp} of the token.
gateway_get_current_user(token, t) ==
    IF ~token.sig_ok \/ (IsSome(token.exp) /\ Val(token.exp) < t) \/ ~IsSome(token.sub)
    THEN [ok |-> FALSE, payload |-> [sub |-> None, role |-> token.role, exp |-> token.exp]]
    ELSE [ok |-> TRUE, payload |-> [sub |-> token.sub, role |-> token.role, exp |-> token.exp]]

\* The credentials of "Bearer None": the text None, which is no JWT.
BearerNone == Token(FALSE, None, "None", None)

\* f"Bearer {current_user.get('token')}": the value under the key 'token' of
\* the payload, None when the payload has no such key.
ForwardedCredentials(current_user) ==
    IF "token" \in DOMAIN current_user THEN current_user["token"] ELSE BearerNone

\* The routes of the gateway that forward a read to the telemetry service,
\* under the name of the handler they reach, and the arguments they pass on.
GatewayReads == { "get_telemetry", "get_device_analytics", "get_device_health",
                  "get_devices_summary" }
GatewayArgs(route) ==
    CASE route = "get_telemetry" -> TelemetryQueries
      [] route = "get_device_analytics" -> [device_id : Devices, period : Periods]
      [] route = "get_device_health" -> [device_id : Devices]
      [] route = "get_devices_summary" -> {None}

\* What the telemetry service answers to a forwarded read.
TelemetryServiceResponses(route, credentials, args) ==
    IF Rejections(route, credentials, now) # {}
    THEN Rejections(route, credentials, now)
    ELSE CASE route = "get_telemetry" ->
                TelemetryResponses(telemetry, layout, credentials, args)
           [] route = "get_device_analytics" ->
                AnalyticsResponses(telemetry, layout, credentials,
                                   args.device_id, args.period, now)
           [] route = "get_device_health" ->
                HealthResponses(telemetry, layout, credentials, args.device_id, now)
           [] route = "get_devices_summary" ->
                SummaryResponses(telemetry, user_devices, credentials)

\* return response.json(): the body of the downstream answer under the
\* gateway's own 200, whatever the downstream status was.
GatewayResponse(route, token, forwarded, response) ==
    Response("gateway", token,
             [route |-> route, forwarded |-> forwarded, downstream |-> response.status],
             200, response.body, TRUE)

\* GET /telemetry, /telemetry/{device_id}/analytics, /telemetry/{device_id}/health
\* and /telemetry/devices/summary of the gateway.
gateway_read ==
    /\ Ready
    /\ \E token \in Credentials, route \in GatewayReads :
        IF ~security(token)
        THEN resp' \in { Response("gateway", token, None, st, None, TRUE) : st \in {401, 403} }
        ELSE IF ~gateway_get_current_user(token, now).ok
        THEN resp' = Unauthorized("gateway", token)
        ELSE LET current_user == gateway_get_current_user(token, now).payload
                 forwarded == ForwardedCredentials(current_user)
             IN  \E args \in GatewayArgs(route) :
                 \E response \in TelemetryServiceResponses(route, forwarded, args) :
                    resp' = GatewayResponse(route, token, forwarded, response)
    /\ UNCHANGED <<layout, now, telemetry, next_id, user_devices>>

\* POST /telemetry of the gateway.
gateway_create_telemetry ==
    /\ Ready
    /\ \E token \in Credentials :
        IF ~security(token)
        THEN /\ resp' \in { Response("gateway", token, None, st, None, TRUE) : st \in {401, 403} }
             /\ UNCHANGED <<layout, now, telemetry, next_id, user_devices>>
        ELSE IF ~gateway_get_current_user(token, now).ok
        THEN /\ resp' = Unauthorized("gateway", token)
             /\ UNCHANGED <<layout, now, telemetry, next_id, user_devices>>
        ELSE LET current_user == gateway_get_current_user(token, now).payload
                 forwarded == ForwardedCredentials(current_user)
             IN  IF Rejections("create_telemetry", forwarded, now) # {}
                 THEN /\ \E response \in Rejections("create_telemetry", forwarded, now) :
                            resp' = GatewayResponse("create_telemetry", token,
                                                    forwarded, response)
                      /\ UNCHANGED <<layout, now, telemetry, next_id, user_devices>>
                 ELSE \E body \in TelemetryBodies :
                        LET inserted == InsertTelemetry(forwarded, TelemetryCreate(body),
                                                        next_id, now)
                            fetched == SelectStar(layout, inserted)
                        IN  /\ next_id <= MaxReadings
                            /\ telemetry' = telemetry \cup {inserted}
                            /\ next_id' = next_id + 1
                            /\ resp' = GatewayResponse("create_telemetry", token, forwarded,
                                         IF TelemetryResponseValid(fetched)
                                         THEN Response("create_telemetry", forwarded, body,
                                                       201, TelemetryResponse(fetched), TRUE)
                                         ELSE Response("create_telemetry", forwarded, body,
                                                       500, None, TRUE))
                            /\ UNCHANGED <<layout, now, user_devices>>

\* The gateway in front of the telemetry service, which also takes requests
\* sent to it directly.
NextGateway ==
    \/ Tick
    \/ send_response
    \/ create_telemetry
    \/ gateway_create_telemetry
    \/ gateway_read

SpecGateway == Init /\ [][NextGateway]_vars


\* ================================================================== claims

\* The rows of a table that a principal owns.
OwnReadings(T, token) == { r \in T : r.user_id = Sub(token) }
OwnDevices(UD, token) == { d \in UD : d.user_id = Sub(token) }
\* A handler ran: the request passed the bearer-token dependency.
Handled(r, op) == r.op = op /\ r.status \notin {401, 403}

\* ---------------------------------------------------------------------- C1

QueryReturnsOwnReadings ==
    (resp.op = "get_telemetry" /\ resp.status = 200) =>
        \A i \in 1..Len(resp.body) :
            \E r \in OwnReadings(telemetry, resp.token) : r.id = resp.body[i].id

ListReturnsOwnDevices ==
    (resp.op = "get_user_devices" /\ resp.status = 200) =>
        \A i \in 1..Len(resp.body) :
            \E d \in OwnDevices(user_devices, resp.token) :
                d.device_id = resp.body[i].device_id /\ d.created_at = resp.body[i].created_at

SummaryReturnsOwnData ==
    (resp.op = "get_devices_summary" /\ resp.status = 200) =>
        \A i \in 1..Len(resp.body.devices) :
            LET e == resp.body.devices[i]
            IN  /\ \E d \in OwnDevices(user_devices, resp.token) : d.device_id = e.device_id
                /\ IsSome(e.last_seen) =>
                     \E r \in OwnReadings(telemetry, resp.token) :
                        /\ r.device_id = e.device_id
                        /\ r.timestamp = Val(e.last_seen)
                        /\ r.energy_usage = Val(e.last_energy_usage)
                        /\ r.status = e.status

\* C1: whatever was appended, registered and deleted, and whatever device_id,
\* start_time, end_time and limit the caller passes, the telemetry query, the
\* device list and the device summary of a principal return only readings and
\* devices whose user_id is the principal's subject.
C1_TenantIsolation ==
    /\ QueryReturnsOwnReadings
    /\ ListReturnsOwnDevices
    /\ SummaryReturnsOwnData

\* A principal queries a device id that another tenant registered and wrote
\* readings for, and gets its own single reading of that device id back.
C1_Witness ==
    /\ resp.op = "get_telemetry" /\ resp.status = 200
    /\ IsSome(resp.args.device_id)
    /\ Len(resp.body) = 1
    /\ \E r \in telemetry, d \in user_devices :
        /\ r.user_id # Sub(resp.token)
        /\ r.device_id = Val(resp.args.device_id)
        /\ d.user_id = r.user_id /\ d.device_id = r.device_id

\* ---------------------------------------------------------------------- C2

\* C2: analyze(A, d, period) aggregates only readings whose user_id is A: the
\* totals it returns are those of A's own readings of d in the window, and it
\* returns none when every reading of d in the window is another tenant's.
C2_AnalyzeOwnReadingsOnly ==
    (resp.op = "get_device_analytics" /\ resp.status = 200) =>
        resp \in AnalyticsResponses(OwnReadings(telemetry, resp.token), layout, resp.token,
                                    resp.args.device_id, resp.args.period, now)

\* ---------------------------------------------------------------------- C3

\* C3: evaluate(A, d) derives every field of the health report from readings
\* whose user_id is A: the report it returns is the one A's own readings of d
\* give, and it returns none when all readings of d are another tenant's.
C3_EvaluateOwnReadingsOnly ==
    (resp.op = "get_device_health" /\ resp.status = 200) =>
        resp \in HealthResponses(OwnReadings(telemetry, resp.token), layout, resp.token,
                                 resp.args.device_id, now)

\* ---------------------------------------------------------------------- C4

\* C4: a reading leaves the store only by a delete of the principal that owns
\* it; a delete aimed at another tenant's reading leaves the store unchanged.
C4_DeleteOnlyOwnReading ==
    [][\A r \in telemetry : r \notin telemetry' => r.user_id = Sub(resp'.token)]_vars

\* ---------------------------------------------------------------------- C5

\* C5: a reading enters the store only by an append, with the subject of the
\* verified token of that request as user_id, whatever user_id the request
\* body carries; no later step changes a stored reading.
C5_AppendStampsPrincipal ==
    [][\A r \in telemetry' :
          \/ r \in telemetry
          \/ /\ Handled(resp', "create_telemetry")
             /\ r.id = next_id
             /\ r.user_id = Sub(resp'.token)]_vars

\* An append whose body names another tenant as user_id stored its reading
\* under the subject of the token.
C5_Witness ==
    /\ Handled(resp, "create_telemetry")
    /\ IsSome(resp.args.user_id) /\ Val(resp.args.user_id) # Sub(resp.token)
    /\ \E r \in telemetry : r.id = next_id - 1 /\ r.user_id = Sub(resp.token)

\* ---------------------------------------------------------------------- C6

\* The three reasons for verify to fail, and the request without credentials.
TokenRefused(token, t) ==
    \/ token = NoToken
    \/ ~token.sig_ok
    \/ IsSome(token.exp) /\ Val(token.exp) < t
    \/ ~IsSome(token.sub)

C8_ConflictIffDuplicate ==
    [][(Ready /\ Handled(resp', "create_user_device")) =>
          /\ resp'.status = 400 <=>
                /\ IsSome(resp'.args.device_id)
                /\ \E d \in OwnDevices(user_devices, resp'.token) :
                      d.device_id = Val(resp'.args.device_id)
          /\ resp'.status = 400 => user_devices' = user_devices]_vars

\* ---------------------------------------------------------------------- C9

OneDevicePerPair ==
    \A d1, d2 \in user_devices :
        (d1.user_id = d2.user_id /\ d1.device_id = d2.device_id) => d1 = d2

\* C9: the registry never holds two devices of one (user_id, device_id), and
\* of the requests that register one pair, in whatever order they are served,
\* the first succeeds and every other fails and changes nothing.
C9_UniqueRegistration ==
    /\ []OneDevicePerPair
    /\ [][(Ready /\ Handled(resp', "create_user_device") /\ IsSome(resp'.args.device_id)) =>
            LET same(UD) == { d \in OwnDevices(UD, resp'.token) :
                                d.device_id = Val(resp'.args.device_id) }
            IN  IF same(user_devices) # {}
                THEN resp'.status # 201 /\ user_devices' = user_devices
                ELSE resp'.status = 201 /\ Cardinality(same(user_devices')) = 1]_vars

\* A second request for a pair that is registered was refused.
C9_Witness ==
    /\ Handled(resp, "create_user_device") /\ resp.status # 201
    /\ IsSome(resp.args.device_id)
    /\ Cardinality({ d \in OwnDevices(user_devices, resp.token) :
                       d.device_id = Val(resp.args.device_id) }) = 1

\* --------------------------------------------------------------------- C10

ShowsOnlyRegistered ==
    /\ (resp.op = "get_user_devices" /\ resp.status = 200) =>
          \A i \in 1..Len(resp.body) :
              \E d \in OwnDevices(user_devices, resp.token) :
                  d.device_id = resp.body[i].device_id
    /\ (resp.op = "get_devices_summary" /\ resp.status = 200) =>
          /\ resp.body.total_devices = Cardinality(OwnDevices(user_devices, resp.token))
          /\ \A i \in 1..Len(resp.body.devices) :
              \E d \in OwnDevices(user_devices, resp.token) :
                  d.device_id = resp.body.devices[i].device_id

\* C10: an append stores the reading whether or not the device is registered
\* and leaves the registry as it was; the device list and the summary show a
\* device id only when the principal registered it.
C10_IngestionLeavesRegistry ==
    /\ []ShowsOnlyRegistered
    /\ [][(Ready /\ Handled(resp', "create_telemetry")) =>
            /\ user_devices' = user_devices
            /\ \E r \in telemetry' \ telemetry :
                  /\ r.device_id = resp'.args.device_id
                  /\ r.user_id = Sub(resp'.token)]_vars

\* The summary of a principal that has a reading of a device id it never
\* registered, while it has registered another device.
C10_Witness ==
    /\ resp.op = "get_devices_summary" /\ resp.status = 200
    /\ resp.body.total_devices = 1
    /\ \E r \in OwnReadings(telemetry, resp.token) :
          \A d \in OwnDevices(user_devices, resp.token) : d.device_id # r.device_id

\* -------------------------------------------------- windows and aggregates

\* The instant a stored timestamp denotes, in hours.
InstantOf(ts) == ts[1] * HoursPerDay + ts[3]

\* The length of a period of the spec, in hours.
PeriodLength(period) ==
    CASE period = "daily" -> HoursPerDay
      [] period = "weekly" -> DaysPerWeek * HoursPerDay
      [] period = "monthly" -> DaysPerMonth * HoursPerDay
      [] period = "yearly" -> DaysPerYear * HoursPerDay

\* The readings of a device written at or after an instant.
WindowOf(T, device_id, start) ==
    { r \in T : r.device_id = device_id /\ InstantOf(r.timestamp) >= start }

\* No other tenant has a reading under the device id: the report of the
\* caller is a report on the caller's device alone.
SoleOwner(T, token, device_id) ==
    \A r \in T : r.device_id = device_id => r.user_id = Sub(token)

RECURSIVE TotalOf(_)
TotalOf(S) ==
    IF S = {} THEN 0
    ELSE LET r == CHOOSE q \in S : TRUE IN r.energy_usage + TotalOf(S \ {r})

PeakOf(S) == CHOOSE m \in { r.energy_usage : r \in S } : \A r \in S : r.energy_usage <= m

\* The request in resp is an analysis (an evaluation) that the handler
\* answered from the store.
Analyzed == resp.op = "get_device_analytics" /\ resp.status \in {200, 404}
Evaluated == resp.op = "get_device_health" /\ resp.status \in {200, 404}

\* C11: the samples of an analysis are exactly the device's readings written
\* at or after now minus the period length, and the recent count of an
\* evaluation is exactly the number of readings of the last 24 hours: a
\* reading 23 hours old is in the daily window, one 25 hours old is not.
C11_WindowCorrectness ==
    /\ (Analyzed /\ SoleOwner(telemetry, resp.token, resp.args.device_id)) =>
          LET sample == WindowOf(telemetry, resp.args.device_id,
                                 now - PeriodLength(resp.args.period))
          IN  /\ resp.status = 404 <=> sample = {}
              /\ resp.status = 200 =>
                    /\ resp.body.total_energy = TotalOf(sample)
                    /\ resp.body.peak_energy = PeakOf(sample)
    /\ (Evaluated /\ resp.status = 200
          /\ SoleOwner(telemetry, resp.token, resp.args.device_id)) =>
          resp.body.uptime_percentage.num =
              100 * Cardinality(WindowOf(telemetry, resp.args.device_id, now - HoursPerDay))

\* C12: an analysis fails with NotFound exactly when the window holds no
\* reading of the device; readings of energy 0 are samples, so a window of
\* zero readings only gives a result with average 0 over all of them.
C12_NotFoundIffNoSample ==
    (Analyzed /\ SoleOwner(telemetry, resp.token, resp.args.device_id)) =>
        LET sample == WindowOf(telemetry, resp.args.device_id,
                               now - PeriodLength(resp.args.period))
        IN  /\ sample = {} => resp.status = 404
            /\ sample # {} => resp.status = 200
            /\ (sample # {} /\ \A r \in sample : r.energy_usage = 0) =>
                  /\ resp.status = 200
                  /\ resp.body.average_energy.num = 0
                  /\ resp.body.average_energy.den = Cardinality(sample)

\* C13: the result of an analysis over a non-empty sample set carries the sum,
\* the mean, the maximum, 0.12 and 0.92 times the sum, the number of samples,
\* the requested device and the requested period.
C13_AggregatesOfSamples ==
    (Analyzed /\ resp.status = 200
       /\ SoleOwner(telemetry, resp.token, resp.args.device_id)) =>
        LET sample == WindowOf(telemetry, resp.args.device_id,
                               now - PeriodLength(resp.args.period))
        IN  /\ resp.body.total_energy = TotalOf(sample)
            /\ resp.body.average_energy.num = TotalOf(sample)
            /\ resp.body.average_energy.den = Cardinality(sample)
            /\ resp.body.peak_energy = PeakOf(sample)
            /\ resp.body.cost_estimate = 12 * TotalOf(sample)
            /\ resp.body.carbon_footprint = 92 * TotalOf(sample)
            /\ Len(resp.body.data_points) = Cardinality(sample)
            /\ resp.body.device_id = resp.args.device_id
            /\ resp.body.period = resp.args.period

\* C14: an analysis whose period is none of daily, weekly, monthly, yearly is
\* answered InvalidArgument (400) with no data, whether or not the device has
\* readings, and leaves the store as it was.
C14_UnknownPeriodRejected ==
    [][(/\ resp'.op = "get_device_analytics"
        /\ resp' # resp
        /\ resp'.status \notin {401, 403}
        /\ resp'.args.period \notin {"daily", "weekly", "monthly", "yearly"})
       => /\ resp'.status = 400
          /\ resp'.body = None
          /\ telemetry' = telemetry /\ user_devices' = user_devices]_vars

C14_Witness ==
    /\ resp.op = "get_device_analytics"
    /\ resp.status = 400
    /\ resp.args.period = "hourly"
    /\ \E r \in telemetry :
          r.device_id = resp.args.device_id /\ r.user_id = Sub(resp.token)

\* ------------------------------------------------------- the health report

\* The rows under a device id, and those of them with the greatest timestamp.
ReadingsOf(T, device_id) == { r \in T : r.device_id = device_id }
NewestOf(S) ==
    { r \in S : \A q \in S : InstantOf(q.timestamp) <= InstantOf(r.timestamp) }

\* C15: an evaluation fails with NotFound when the device has no reading;
\* otherwise the report's status and lastSeen are those of the device's
\* reading with the greatest timestamp, and its deviceId is the requested one.
C15_LatestReadingReported ==
    (resp.op = "get_device_health" /\ resp.status \notin {401, 403}) =>
        LET readings == ReadingsOf(telemetry, resp.args.device_id)
        IN  /\ readings = {} <=> resp.status = 404
            /\ resp.status = 200 =>
                  /\ resp.body.device_id = resp.args.device_id
                  /\ \E r \in NewestOf(readings) :
                        /\ resp.body.status = r.status
                        /\ resp.body.last_seen = InstantOf(r.timestamp)

C15_Witness ==
    /\ resp.op = "get_device_health"
    /\ resp.status = 200
    /\ resp.body.status = "active"
    /\ \E r \in ReadingsOf(telemetry, resp.args.device_id) :
          /\ r.status = "error"
          /\ InstantOf(r.timestamp) < resp.body.last_seen

\* The request in resp is an evaluation that returned a HealthReport.
Reported == resp.op = "get_device_health" /\ resp.status = 200

\* C16: the uptime of every HealthReport is between 0 and 100: it is clamped
\* at 100 when the last 24 hours hold more than 24 readings (30 readings give
\* 100, not 125).
C16_UptimeClamped ==
    Reported =>
        /\ 0 <= resp.body.uptime_percentage.num
        /\ resp.body.uptime_percentage.num <= 100 * resp.body.uptime_percentage.den

\* C17: the error count of every HealthReport is the number of readings of the
\* device, of any age, whose status is not "active", and maintenance is due
\* exactly when the error count is above 5 or the uptime is below 80.
C17_ErrorsOfAllTime ==
    Reported =>
        /\ resp.body.error_count =
              Cardinality({ r \in ReadingsOf(telemetry, resp.args.device_id) :
                              r.status # "active" })
        /\ resp.body.maintenance_due <=>
              \/ resp.body.error_count > 5
              \/ resp.body.uptime_percentage.num < 80 * resp.body.uptime_percentage.den

C17_Witness ==
    /\ Reported
    /\ ~resp.body.maintenance_due
    /\ resp.body.error_count > 0
    /\ \A r \in ReadingsOf(telemetry, resp.args.device_id) :
          r.status # "active" => InstantOf(r.timestamp) < now - HoursPerDay

ConnectivityAdvisory == "Device may be experiencing connectivity issues"
MaintenanceAdvisory == "Device has reported errors - check device status"
VentilationAdvisory == "Device temperature is high - check ventilation"
Advises(advisory) == \E i \in DOMAIN resp.body.recommendations :
                        resp.body.recommendations[i] = advisory

\* The newest reading of the device in resp has a temperature above a bound /
\* has none above it (both can be, when two readings share the newest timestamp).
NewestAbove(bound) ==
    \E r \in NewestOf(ReadingsOf(telemetry, resp.args.device_id)) :
        IsSome(r.temperature) /\ Val(r.temperature) > bound
NewestNotAbove(bound) ==
    \E r \in NewestOf(ReadingsOf(telemetry, resp.args.device_id)) :
        ~IsSome(r.temperature) \/ Val(r.temperature) <= bound

\* C18: the ventilation advisory is in the recommendations exactly when the
\* latest reading has a temperature above 70.
C18_VentilationAbove70 ==
    Reported =>
        /\ Advises(VentilationAdvisory) => NewestAbove(70)
        /\ ~Advises(VentilationAdvisory) => NewestNotAbove(70)

AdvisoryRank(advisory) ==
    CASE advisory = ConnectivityAdvisory -> 1
      [] advisory = MaintenanceAdvisory -> 2
      [] advisory = VentilationAdvisory -> 3
      [] OTHER -> 0

\* C19: each advisory is in the recommendations exactly when its own rule
\* triggers (uptime below 90, error count above 0, temperature of the latest
\* reading above 80), whatever the other rules do; the advisories come in the
\* order connectivity, maintenance, ventilation and nothing else is in the
\* list, so it is empty when no rule triggers; a device with no reading in the
\* last 24 hours and 6 errors gets uptime 0, maintenance due and both the
\* connectivity and the maintenance advisory.
C19_RulesIndependentAndOrdered ==
    Reported =>
        LET recs == resp.body.recommendations
            uptime == resp.body.uptime_percentage
        IN  /\ Advises(ConnectivityAdvisory) <=> uptime.num < 90 * uptime.den
            /\ Advises(MaintenanceAdvisory) <=> resp.body.error_count > 0
            /\ Advises(VentilationAdvisory) => NewestAbove(80)
            /\ ~Advises(VentilationAdvisory) => NewestNotAbove(80)
            /\ \A i \in DOMAIN recs : AdvisoryRank(recs[i]) > 0
            /\ \A i, j \in DOMAIN recs :
                  i < j => AdvisoryRank(recs[i]) < AdvisoryRank(recs[j])
            /\ ( /\ WindowOf(telemetry, resp.args.device_id, now - HoursPerDay) = {}
                 /\ resp.body.error_count = 6 )
               => /\ uptime.num = 0
                  /\ resp.body.maintenance_due
                  /\ Advises(ConnectivityAdvisory)
                  /\ Advises(MaintenanceAdvisory)

C19_Witness ==
    /\ Reported
    /\ WindowOf(telemetry, resp.args.device_id, now - HoursPerDay) = {}
    /\ resp.body.error_count = 6
    /\ resp.body.recommendations = <<ConnectivityAdvisory, MaintenanceAdvisory>>

\* C20: a query never returns more readings than the limit of the request,
\* whatever the limit is: none for a limit of zero or below, and at most 100
\* with the default limit.
C20_LimitBoundsResult ==
    (resp.op = "get_telemetry" /\ resp.status = 200) =>
        /\ Len(resp.body) <= (IF resp.args.limit < 0 THEN 0 ELSE resp.args.limit)
        /\ Len(resp.body) <= 100

\* --------------------------------------------------------------------- C21

\* The readings of the principal in resp that the query arguments in resp ask
\* for: the device filter and the bounds from <= timestamp <= to, where given.
Requested(T) ==
    { r \in OwnReadings(T, resp.token) :
        /\ IsSome(resp.args.device_id) => r.device_id = Val(resp.args.device_id)
        /\ IsSome(resp.args.start_time) =>
              Val(resp.args.start_time) <= InstantOf(r.timestamp)
        /\ IsSome(resp.args.end_time) =>
              InstantOf(r.timestamp) <= Val(resp.args.end_time) }

Smaller(a, b) == IF a < b THEN a ELSE b

\* C21: a query with a limit of zero or more returns the principal's readings
\* that match the device filter and lie between the bounds supplied, newest
\* first, each once; when more than `limit` match it returns the `limit`
\* newest of them.
C21_QueryFiltersSortsLimits ==
    (resp.op = "get_telemetry" /\ resp.status = 200 /\ resp.args.limit >= 0) =>
        LET requested == Requested(telemetry)
            body == resp.body
        IN  /\ Len(body) = Smaller(resp.args.limit, Cardinality(requested))
            /\ \A i \in DOMAIN body : \E r \in requested :
                  /\ r.id = body[i].id
                  /\ InstantOf(r.timestamp) = body[i].timestamp
            /\ \A i, j \in DOMAIN body :
                  i < j => /\ body[i].id # body[j].id
                           /\ body[i].timestamp >= body[j].timestamp
            /\ \A r \in requested :
                  (\A i \in DOMAIN body : body[i].id # r.id) =>
                     \A i \in DOMAIN body : InstantOf(r.timestamp) <= body[i].timestamp

\* --------------------------------------------------------------------- C22

\* The device that a principal registered under a device id.
RegisteredAs(UD, token, device_id) ==
    CHOOSE d \in OwnDevices(UD, token) : d.device_id = device_id

\* The readings of a principal under a device id.
OwnReadingsOf(T, token, device_id) ==
    { r \in OwnReadings(T, token) : r.device_id = device_id }

\* C22: the summary has exactly one entry for each device registered to the
\* principal, newest registration first; an entry carries the energy usage,
\* timestamp and status of a reading of the principal under the device id
\* that no other such reading is newer than; when the principal has no
\* reading under the device id the entry has status "unknown" and no last
\* reading, whatever other tenants wrote under that id; total_devices is the
\* number of entries.
C22_SummaryJoinsLatestOwnReading ==
    (resp.op = "get_devices_summary" /\ resp.status = 200) =>
        LET entries == resp.body.devices
            mine == OwnDevices(user_devices, resp.token)
        IN  /\ resp.body.total_devices = Len(entries)
            /\ Len(entries) = Cardinality(mine)
            /\ { entries[i].device_id : i \in DOMAIN entries } =
                  { d.device_id : d \in mine }
            /\ \A i, j \in DOMAIN entries :
                  i < j =>
                    /\ entries[i].device_id # entries[j].device_id
                    /\ InstantOf(RegisteredAs(user_devices, resp.token,
                                              entries[i].device_id).created_at)
                       >= InstantOf(RegisteredAs(user_devices, resp.token,
                                                 entries[j].device_id).created_at)
            /\ \A i \in DOMAIN entries :
                  LET readings == OwnReadingsOf(telemetry, resp.token, entries[i].device_id)
                  IN  IF readings = {}
                      THEN /\ entries[i].status = "unknown"
                           /\ entries[i].last_seen = None
                           /\ entries[i].last_energy_usage = None
                      ELSE \E r \in NewestOf(readings) :
                              /\ entries[i].status = r.status
                              /\ entries[i].last_seen = Some(r.timestamp)
                              /\ entries[i].last_energy_usage = Some(r.energy_usage)

\* A summary of two devices: the one registered later comes first and shows
\* "unknown" and no last reading although another tenant wrote a reading under
\* its id; the other shows the principal's own reading.
C22_Witness ==
    /\ resp.op = "get_devices_summary" /\ resp.status = 200
    /\ Len(resp.body.devices) = 2
    /\ resp.body.devices[1].status = "unknown"
    /\ resp.body.devices[1].last_seen = None
    /\ \E r \in telemetry :
          /\ r.device_id = resp.body.devices[1].device_id
          /\ r.user_id # Sub(resp.token)
    /\ IsSome(resp.body.devices[2].last_seen)
    /\ InstantOf(RegisteredAs(user_devices, resp.token,
                              resp.body.devices[1].device_id).created_at)
       > InstantOf(RegisteredAs(user_devices, resp.token,
                                resp.body.devices[2].device_id).created_at)

\* --------------------------------------------------------------------- C23

\* C23: every stored reading has an energy usage of zero or more; an append
\* with a negative energy usage is answered InvalidArgument (400 or 422) and
\* stores nothing; an append with an energy usage of zero or more succeeds,
\* with or without a temperature (on a table in the column order the handler
\* reads).
C23_EnergyNeverNegative ==
    /\ \A r \in telemetry : r.energy_usage >= 0
    /\ (resp.op = "create_telemetry" /\ resp.status \notin {401, 403}) =>
          /\ resp.args.energy_usage < 0 => resp.status \in {400, 422}
          /\ (resp.args.energy_usage >= 0 /\ layout = "migrated") => resp.status = 201

\* --------------------------------------------------------------------- C24

\* C24: whatever a request was answered, whether with a result or with an
\* error, the handler has closed the connection it opened by the time it
\* answers.
C24_ConnectionReleasedOnEveryPath ==
    resp.op # "none" => resp.conn_closed

\* --------------------------------------------------------------------- C25

\* The answer in resp is the one an evaluation run as a whole on table T gives.
ReportOf(T) ==
    \E q \in HealthResponses(T, layout, resp.token, resp.args.device_id, now) :
        q.status = resp.status /\ q.body = resp.body

ReadOps == { "get_telemetry", "get_device_analytics", "get_device_health",
             "get_user_devices", "get_devices_summary" }

\* A query without time bounds and with the default limit returns the
\* principal's readings (of the device asked for) that are in the store now.
QueryShowsStore ==
    ( /\ resp.op = "get_telemetry" /\ resp.status = 200
      /\ resp.args.start_time = None /\ resp.args.end_time = None
      /\ resp.args.limit = DefaultLimit ) =>
        { resp.body[i].id : i \in DOMAIN resp.body } =
            { r.id : r \in { q \in OwnReadings(telemetry, resp.token) :
                               IsSome(resp.args.device_id) =>
                                  q.device_id = Val(resp.args.device_id) } }

\* C26: no step changes a stored reading; an append adds exactly one reading
\* and leaves the others and the devices as they were; a delete removes no
\* reading but the one with the id of the request and changes nothing else;
\* query, analyze, evaluate, list and summarize leave readings and devices as
\* they were, and a query shows the readings in the store at the time of the
\* call.
C26_AppendOnlyStore ==
    /\ []QueryShowsStore
    /\ [][ /\ \A r \in telemetry, q \in telemetry' : q.id = r.id => q = r
           /\ (Ready /\ Handled(resp', "create_telemetry")) =>
                 /\ telemetry \subseteq telemetry'
                 /\ Cardinality(telemetry' \ telemetry) = 1
                 /\ user_devices' = user_devices
           /\ (Ready /\ Handled(resp', "delete_telemetry")) =>
                 /\ telemetry' \subseteq telemetry
                 /\ \A r \in telemetry \ telemetry' : r.id = resp'.args.telemetry_id
                 /\ Cardinality(telemetry \ telemetry') <= 1
                 /\ user_devices' = user_devices
           /\ (Ready /\ resp'.op \in ReadOps) =>
                 /\ telemetry' = telemetry
                 /\ user_devices' = user_devices ]_vars

\* A query that shows one reading of a device right after the other reading of
\* that device, appended before it, was deleted.
C26_Witness ==
    /\ resp.op = "get_telemetry" /\ resp.status = 200
    /\ resp.args.start_time = None /\ resp.args.end_time = None
    /\ resp.args.limit = DefaultLimit
    /\ Len(resp.body) = 1
    /\ resp.body[1].id = 2
    /\ next_id = 3
    /\ Cardinality(telemetry) = 1

\* --------------------------------------------------------------------- C27

\* C27: a reading leaves the store only by a delete request of a principal
\* whose role is admin.
C27_DeleteAdminOnly ==
    [][\A r \in telemetry :
          r \notin telemetry' =>
              /\ resp'.op = "delete_telemetry"
              /\ resp'.token.role = "admin"]_vars

\* --------------------------------------------------------------------- C28

\* C28: an append that is answered with a failure leaves the store as it was,
\* and an append that adds a reading is answered 201 with the id of that
\* reading.
C28_AppendAllOrNothing ==
    [][(Ready /\ resp'.op = "create_telemetry") =>
          IF resp'.status = 201
          THEN \E r \in telemetry' \ telemetry : r.id = resp'.body.id
          ELSE telemetry' = telemetry]_vars

\* --------------------------------------------------------------------- C29

\* C29: on the telemetry table as init_db creates it, an append is answered
\* with the device id, energy usage and status of its request; a query
\* returns each reading with the device id, energy usage and status it was
\* stored with; an analysis that finds readings returns the device id asked
\* for and the greatest energy usage of one of the device's readings; an
\* evaluation that finds readings returns the status of the device's newest
\* reading. None of the four fails on reading a column.
C29_RoundTripOnInitDbStore ==
    layout = "fresh" =>
        /\ Handled(resp, "create_telemetry") =>
              /\ resp.status = 201
              /\ resp.body.device_id = resp.args.device_id
              /\ resp.body.energy_usage = resp.args.energy_usage
              /\ resp.body.status = resp.args.status
        /\ Handled(resp, "get_telemetry") =>
              /\ resp.status = 200
              /\ \A i \in DOMAIN resp.body : \E r \in telemetry :
                    /\ r.id = resp.body[i].id
                    /\ r.device_id = resp.body[i].device_id
                    /\ r.energy_usage = resp.body[i].energy_usage
                    /\ r.status = resp.body[i].status
        /\ Handled(resp, "get_device_analytics") =>
              /\ resp.status \in {200, 400, 404}
              /\ resp.status = 200 =>
                    /\ resp.body.device_id = resp.args.device_id
                    /\ \E r \in ReadingsOf(telemetry, resp.args.device_id) :
                          resp.body.peak_energy = r.energy_usage
        /\ Handled(resp, "get_device_health") =>
              /\ resp.status \in {200, 404}
              /\ resp.status = 200 =>
                    \E r \in NewestOf(ReadingsOf(telemetry, resp.args.device_id)) :
                        resp.body.status = r.status

\* --------------------------------------------------------------------- C30

\* C30: when the gateway has verified the caller's token, the credentials it
\* forwards are accepted by the verifier of the telemetry service and carry
\* the caller's subject, and the telemetry service does not refuse the
\* request.
C30_GatewayForwardsPrincipal ==
    (resp.op = "gateway" /\ resp.status = 200) =>
        /\ get_current_user(resp.args.forwarded, now).ok
        /\ get_current_user(resp.args.forwarded, now).payload.sub = resp.token.sub
        /\ resp.args.downstream \notin {401, 403}

====
